---------------------------- MODULE Spec2Model ----------------------------
(* Read-through cache and write-triggered invalidation of the league REST  *)
(* backend: the cached routes of Player, PlayerStat, News, Transfer and    *)
(* Award, the shared Redis client, and the document store behind them.     *)
(* One behaviour exercises the routes of one entity type T (chosen in      *)
(* Init); the routers of the different types share no cache key.           *)
(*   T      the router the behaviour exercises                             *)
(*   qs     the query objects the clients of the behaviour send            *)
(*   procs  the requests in flight, where requests overlap (SpecConc)      *)
(*   db     the documents of the type: id -> document                      *)
(*   nextId the next fresh ObjectId                                        *)
(*   cache  the Redis key space: key -> [val, ttl]                         *)
(*   stale  the cached keys stored before the last successful write        *)
(*   res    the last response, with the calls its handler made             *)
EXTENDS Integers, Sequences, FiniteSets, TLC

VARIABLES T, qs, procs, db, nextId, cache, stale, res

vars == <<T, qs, procs, db, nextId, cache, stale, res>>

-----------------------------------------------------------------------------
(* Bounds *)
MaxId == 1          \* number of document ids the store can hand out

(* Program constants *)
TTL_SECONDS == 3600 \* setex(cacheKey, 3600, ...)

-----------------------------------------------------------------------------
(* Entity types and the per-router facts read off the route files *)
Types == {"Player", "PlayerStat", "News", "Transfer", "Award"}

\* prefix of the list route's cache key: `players:${...}`, `news:${...}` ...
ListNs(t) ==
  CASE t = "Player" -> "players"
    [] t = "PlayerStat" -> "playerStats"
    [] t = "News" -> "news"
    [] t = "Transfer" -> "transfers"
    [] t = "Award" -> "awards"

\* prefix of the detail route's cache key: `playerStat:${id}`, `news:${id}` ...
DetailNs(t) ==
  CASE t = "Player" -> "player"
    [] t = "PlayerStat" -> "playerStat"
    [] t = "News" -> "news"
    [] t = "Transfer" -> "transfer"
    [] t = "Award" -> "award"

\* GET /:id consults the cache (players router.get('/:id') does not)
CachesDetail(t) == t # "Player"

\* redisClient.get of the list route sits in its own try/catch
GuardedListGet(t) == t \in {"News", "Transfer", "Award"}

\* redisClient.get of the detail route sits in its own try/catch
GuardedDetailGet(t) == t \in {"News", "Transfer"}

\* the write handlers call redisClient.del (the players router never does)
Invalidates(t) == t # "Player"

\* the list route passes a filter to find(); PlayerStat.find() takes none
UsesFilter(t) == t # "PlayerStat"

\* create/update populate references after the save, before responding
Populates(t) == t \in {"Player", "News", "Transfer"}

-----------------------------------------------------------------------------
(* Documents, queries and their JSON text *)
IdName == <<"i1", "i2", "i3", "i4">>   \* the string form of an ObjectId
Ids == 1..MaxId
Seasons == {"s1", "s2"}                \* values of the filtered field

\* a query object: the request's parameters in the order the client sent them
Queries == {<<>>, <<<<"season", "s1">>>>}

\* query objects of up to two distinct parameters, in either order; the
\* value "" is `?name=`
WideQueries ==
  {<<>>}
    \cup {<<<<"season", v>>>> : v \in {"", "s1", "s2"}}
    \cup {<<<<"sortBy", w>>>> : w \in {"", "date"}}
    \cup {<<<<"season", v>>, <<"sortBy", w>>>> : v \in {"", "s1", "s2"}, w \in {"", "date"}}
    \cup {<<<<"sortBy", w>>, <<"season", v>>>> : v \in {"", "s1", "s2"}, w \in {"", "date"}}

\* a document as the store holds it
MkDoc(id, season) == [tag |-> "doc", id |-> id, season |-> season]

\* JSON.stringify of one document or plain object: the id becomes its string
StringifyOne(x) ==
  <<IF x.tag = "doc" THEN IdName[x.id] ELSE x.id, x.season>>

\* a parse whose reviver drops the filtered field
ParseOne_dropSeason(t) == [tag |-> "obj", id |-> t[1], season |-> ""]

\* JSON.parse of one serialized object: a plain object, its id a string
ParseOne(t) == [tag |-> "obj", id |-> t[1], season |-> t[2]]

\* JSON.stringify of a payload [kind, items]
Stringify(p) ==
  [kind |-> p.kind, items |-> [i \in 1..Len(p.items) |-> StringifyOne(p.items[i])]]

\* JSON.parse of a serialized payload
Parse(j) ==
  [kind |-> j.kind, items |-> [i \in 1..Len(j.items) |-> ParseOne(j.items[i])]]

ArrayOf(docs) == [kind |-> "array", items |-> docs]
ObjectOf(doc) == [kind |-> "object", items |-> <<doc>>]
Message == [kind |-> "message", items |-> <<>>]

\* a serialization that writes the parameter names and drops the values
StringifyQuery_namesOnly(q) ==
  <<"{">> \o [i \in 1..Len(q) |-> q[i][1]] \o <<"}">>

\* JSON.stringify(req.query): the parameters in insertion order
RECURSIVE QueryTokens(_)
QueryTokens(q) ==
  IF q = <<>> THEN <<>> ELSE <<q[1][1], q[1][2]>> \o QueryTokens(Tail(q))

StringifyQuery(q) == <<"{">> \o QueryTokens(q) \o <<"}">>

\* cache keys are strings; a key is modelled as the sequence of its tokens
ListKey(t, q) == <<ListNs(t), ":">> \o StringifyQuery(q)
DetailKey(t, id) == <<DetailNs(t), ":", IdName[id]>>
PatternKey(t) == <<ListNs(t), ":", "*">>

IsListKeyOf(t, k) == Len(k) >= 3 /\ k[1] = ListNs(t) /\ k[2] = ":" /\ k[3] = "{"

\* glob match of a `prefix:*` pattern against a key
GlobMatch(p, k) ==
  /\ p[Len(p)] = "*"
  /\ Len(k) >= Len(p) - 1
  /\ SubSeq(k, 1, Len(p) - 1) = SubSeq(p, 1, Len(p) - 1)

\* value of a query parameter that the handler destructures (last one wins)
RECURSIVE Param(_, _)
Param(q, name) ==
  IF q = <<>> THEN ""
  ELSE IF q[Len(q)][1] = name THEN q[Len(q)][2]
  ELSE Param(SubSeq(q, 1, Len(q) - 1), name)

\* let filter = {}; if (season) filter.season = season
FilterOf(t, q) ==
  IF UsesFilter(t) /\ Param(q, "season") # "" THEN <<Param(q, "season")>> ELSE <<>>

\* let sort = {default}; if (sortBy) sort[sortBy] = order
SortOf(q) ==
  IF Param(q, "sortBy") # "" THEN <<"default", Param(q, "sortBy")>> ELSE <<"default">>

\* the document satisfies the filter passed to find()
Matches(t, doc, q) ==
  FilterOf(t, q) = <<>> \/ doc.season = FilterOf(t, q)[1]

\* Model.find(filter).sort(sort): the matching documents in the sort's order
RECURSIVE FindUpTo(_, _, _, _)
FindUpTo(t, d, q, n) ==
  IF n = 0 THEN <<>>
  ELSE LET r == FindUpTo(t, d, q, n - 1)
       IN IF n \in DOMAIN d /\ Matches(t, d[n], q) THEN Append(r, d[n]) ELSE r

Find(t, d, q) == FindUpTo(t, d, q, MaxId)

-----------------------------------------------------------------------------
(* The Redis client: plain commands of one shared connection *)

\* a value stored with SET, without time to live
Entry_noTtl(val) == [val |-> val, ttl |-> 0]

\* the value and the time to live that setex stores
Entry(val) == [val |-> val, ttl |-> TTL_SECONDS]

\* redisClient.get(key): the stored string (Get), null when Has is false
Has(c, key) == key \in DOMAIN c
Get(c, key) == c[key].val

\* redisClient.setex(key, 3600, value)
Setex(c, key, val) ==
  [k \in DOMAIN c \cup {key} |-> IF k = key THEN Entry(val) ELSE c[k]]

\* a delete that expands a trailing * and removes every matching key
Del_glob(c, key) ==
  [k \in {x \in DOMAIN c : x # key /\ ~(key[Len(key)] = "*" /\ GlobMatch(key, x))}
     |-> c[k]]

\* redisClient.del(key): the DEL command removes the key of that very name
Del(c, key) == [k \in DOMAIN c \ {key} |-> c[k]]

\* the entry's time to live has run out: the server drops the key
Evict(c, key) == [k \in DOMAIN c \ {key} |-> c[k]]

-----------------------------------------------------------------------------
(* One step of a handler, as recorded in the response's trace *)
Ev(e, key, ok) == [e |-> e, key |-> key, ok |-> ok]

\* an awaited redisClient.del: the reply n is the number of keys removed
DelEv(c, key) == [e |-> "del", key |-> key, ok |-> TRUE,
                  n |-> IF key \in DOMAIN c THEN 1 ELSE 0]
NoKey == <<>>

Response(op, key, id, q, status, body, hit, wasStale, trace) ==
  [op |-> op, key |-> key, id |-> id, q |-> q, status |-> status, body |-> body,
   hit |-> hit, stale |-> wasStale, trace |-> trace]

\* outcome of a handler: the cache and store it leaves and what it answered
Outcome(c, d, status, body, hit, trace) ==
  [cache |-> c, db |-> d, status |-> status, body |-> body, hit |-> hit,
   trace |-> trace]

-----------------------------------------------------------------------------
(* Cached read routes *)
ReadFaults == {"none", "find", "setex"}

\* a hit that also re-sets the entry it served (sliding expiry)
HitOutcome_refresh(c, d, key) ==
  Outcome(Setex(c, key, Get(c, key)), d, 200, Stringify(Parse(Get(c, key))), TRUE,
          <<Ev("get", key, TRUE), Ev("setex", key, TRUE), Ev("respond", NoKey, TRUE)>>)

\* if (cached) return res.json(JSON.parse(cached))
HitOutcome(c, d, key) ==
  Outcome(c, d, 200, Stringify(Parse(Get(c, key))), TRUE,
          <<Ev("get", key, TRUE), Ev("respond", NoKey, TRUE)>>)

\* a catch that answers an empty default list and caches it
ReadCatch_emptyDefault(c, d, key, trace) ==
  Outcome(Setex(c, key, Stringify(ArrayOf(<<>>))), d, 200, Stringify(ArrayOf(<<>>)),
          FALSE, Append(trace, Ev("respond", NoKey, TRUE)))

\* the route's outer catch: logger.error(...); res.status(500).json({message})
ReadCatch(c, d, key, trace) ==
  Outcome(c, d, 500, Message, FALSE, Append(trace, Ev("respond", NoKey, FALSE)))

\* a miss path that forgets to store what it loaded
Populate_skip(c, key, payload) == c

\* await redisClient.setex(cacheKey, 3600, JSON.stringify(result))
Populate(c, key, payload) == Setex(c, key, Stringify(payload))

\* a miss path that queries the store again once the cache is set
LoadOutcome_requery(c, d, key, payload, found, getOk, failAt) ==
  Outcome(Populate(c, key, payload), d, 200, Stringify(payload), FALSE,
          <<Ev("get", key, getOk), Ev("find", NoKey, TRUE), Ev("setex", key, TRUE),
            Ev("find", NoKey, TRUE), Ev("respond", NoKey, TRUE)>>)

\* the miss path: query the store, populate the cache, res.json(result)
LoadOutcome(c, d, key, payload, found, getOk, failAt) ==
  LET g == <<Ev("get", key, getOk)>>
  IN IF failAt = "find"
     THEN ReadCatch(c, d, key, Append(g, Ev("find", NoKey, FALSE)))
     ELSE IF ~found
     THEN Outcome(c, d, 404, Message, FALSE,
                  g \o <<Ev("find", NoKey, TRUE), Ev("respond", NoKey, TRUE)>>)
     ELSE IF failAt = "setex"
     THEN ReadCatch(c, d, key,
                    g \o <<Ev("find", NoKey, TRUE), Ev("setex", key, FALSE)>>)
     ELSE Outcome(Populate(c, key, payload), d, 200, Stringify(payload), FALSE,
                  g \o <<Ev("find", NoKey, TRUE), Ev("setex", key, TRUE),
                         Ev("respond", NoKey, TRUE)>>)

\* a stored string that is not JSON text
Garbage == [kind |-> "garbage", items |-> <<>>]

\* JSON.parse(cached) returns (it throws a SyntaxError otherwise)
Parseable(j) == j.kind # "garbage"

\* the calls of a handler whose JSON.parse threw right after the get
WithParseFailure(o, key) ==
  [o EXCEPT !.trace = <<o.trace[1], Ev("parse", key, FALSE)>> \o Tail(o.trace)]

\* a cached route without the inner try/catch: a throw of get or parse
\* reaches the route's catch
CachedRead_unguarded(c, d, key, guarded, payload, found, getOk, failAt) ==
  IF getOk /\ Has(c, key) /\ Parseable(Get(c, key))
  THEN HitOutcome(c, d, key)
  ELSE IF getOk /\ Has(c, key)
  THEN ReadCatch(c, d, key, <<Ev("get", key, TRUE), Ev("parse", key, FALSE)>>)
  ELSE IF ~getOk
  THEN ReadCatch(c, d, key, <<Ev("get", key, FALSE)>>)
  ELSE LoadOutcome(c, d, key, payload, found, getOk, failAt)

\* a cached route: get and parse, hit or miss; a throw of get or of
\* JSON.parse falls through to the miss path where the route guards them
\* with an inner try/catch and reaches the route's catch where it does not
CachedRead(c, d, key, guarded, payload, found, getOk, failAt) ==
  IF getOk /\ Has(c, key) /\ Parseable(Get(c, key))
  THEN HitOutcome(c, d, key)
  ELSE IF getOk /\ Has(c, key)
  THEN IF guarded
       THEN WithParseFailure(LoadOutcome(c, d, key, payload, found, TRUE, failAt), key)
       ELSE ReadCatch(c, d, key, <<Ev("get", key, TRUE), Ev("parse", key, FALSE)>>)
  ELSE IF ~getOk /\ ~guarded
  THEN ReadCatch(c, d, key, <<Ev("get", key, FALSE)>>)
  ELSE LoadOutcome(c, d, key, payload, found, getOk, failAt)

\* router.get('/') of the five cached routers
ListRead(t, c, d, q, getOk, failAt) ==
  CachedRead(c, d, ListKey(t, q), GuardedListGet(t), ArrayOf(Find(t, d, q)),
             TRUE, getOk, failAt)

\* router.get('/:id') of the players router: no cache
PlainDetail(d, id, failAt) ==
  IF failAt = "find"
  THEN Outcome(<<>>, d, 500, Message, FALSE,
               <<Ev("find", NoKey, FALSE), Ev("respond", NoKey, FALSE)>>)
  ELSE IF id \notin DOMAIN d
  THEN Outcome(<<>>, d, 404, Message, FALSE,
               <<Ev("find", NoKey, TRUE), Ev("respond", NoKey, TRUE)>>)
  ELSE Outcome(<<>>, d, 200, Stringify(ObjectOf(d[id])), FALSE,
               <<Ev("find", NoKey, TRUE), Ev("respond", NoKey, TRUE)>>)

\* a detail route that caches what it answers for an id the store lacks
DetailRead_cacheMissing(t, c, d, id, getOk, failAt) ==
  CachedRead(c, d, <<DetailNs(t), ":", IdName[id]>>, FALSE,
             ObjectOf(IF id \in DOMAIN d THEN d[id] ELSE MkDoc(id, "s1")),
             TRUE, getOk, failAt)

\* router.get('/:id')
DetailRead(t, c, d, id, getOk, failAt) ==
  IF CachesDetail(t)
  THEN CachedRead(c, d, DetailKey(t, id), GuardedDetailGet(t),
                  ObjectOf(IF id \in DOMAIN d THEN d[id] ELSE MkDoc(id, "s1")),
                  id \in DOMAIN d, getOk, failAt)
  ELSE [PlainDetail(d, id, failAt) EXCEPT !.cache = c]

\* req.params.id is whatever path segment the client sent: the string of an
\* ObjectId or any other text, such as the JSON text of a query object
PathsOf(queries) ==
  {<<IdName[i]>> : i \in Ids} \cup {StringifyQuery(q) : q \in queries}

IsObjectId(path) == \E i \in DOMAIN IdName : path = <<IdName[i]>>
IdOf(path) == CHOOSE i \in DOMAIN IdName : path = <<IdName[i]>>

\* `type:${req.params.id}`
DetailKeyOf(t, path) == <<DetailNs(t), ":">> \o path

\* router.get('/:id') for any path segment: findById of a segment that is no
\* ObjectId rejects (CastError) and the route's catch answers 500
PathDetailRead(t, c, d, path, getOk, failAt) ==
  IF IsObjectId(path) THEN DetailRead(t, c, d, IdOf(path), getOk, failAt)
  ELSE IF CachesDetail(t)
  THEN CachedRead(c, d, DetailKeyOf(t, path), GuardedDetailGet(t), Message,
                  FALSE, getOk, "find")
  ELSE [PlainDetail(d, 0, "find") EXCEPT !.cache = c]

\* keys a request stored afresh are no longer older than the last write
Stored(o) == {o.trace[i].key : i \in {j \in 1..Len(o.trace) :
                                   o.trace[j].e = "setex" /\ o.trace[j].ok}}

ListReq ==
  \E q \in qs, getOk \in BOOLEAN, failAt \in ReadFaults :
    LET o == ListRead(T, cache, db, q, getOk, failAt)
        key == ListKey(T, q)
    IN /\ cache' = o.cache
       /\ stale' = (stale \cap DOMAIN o.cache) \ Stored(o)
       /\ res' = Response("list", key, 0, q, o.status, o.body, o.hit,
                          o.hit /\ key \in stale, o.trace)
       /\ UNCHANGED <<T, qs, procs, db, nextId>>

DetailReq ==
  \E id \in Ids, getOk \in BOOLEAN, failAt \in ReadFaults :
    LET o == DetailRead(T, cache, db, id, getOk, failAt)
        key == DetailKey(T, id)
    IN /\ cache' = o.cache
       /\ stale' = (stale \cap DOMAIN o.cache) \ Stored(o)
       /\ res' = Response("detail", key, id, <<>>, o.status, o.body, o.hit,
                          o.hit /\ key \in stale, o.trace)
       /\ UNCHANGED <<T, qs, procs, db, nextId>>

PathReq ==
  \E path \in PathsOf(qs), getOk \in BOOLEAN, failAt \in ReadFaults :
    LET o == PathDetailRead(T, cache, db, path, getOk, failAt)
        key == DetailKeyOf(T, path)
    IN /\ cache' = o.cache
       /\ stale' = (stale \cap DOMAIN o.cache) \ Stored(o)
       /\ res' = Response("detail", key, IF IsObjectId(path) THEN IdOf(path) ELSE 0,
                          <<>>, o.status, o.body, o.hit, o.hit /\ key \in stale,
                          o.trace)
       /\ UNCHANGED <<T, qs, procs, db, nextId>>

\* something else than the routers writes text that is not JSON under a key
Corrupt ==
  \E key \in DOMAIN cache :
    /\ Parseable(Get(cache, key))
    /\ cache' = [cache EXCEPT ![key].val = Garbage]
    /\ res' = Response("corrupt", key, 0, <<>>, 0, Message, FALSE, FALSE, <<>>)
    /\ UNCHANGED <<T, qs, procs, db, nextId, stale>>

\* TTL_SECONDS after its setex an entry expires (a key without time to live
\* would stay for ever)
ExpireKey(key) ==
    /\ key \in DOMAIN cache
    /\ cache[key].ttl > 0
    /\ cache' = Evict(cache, key)
    /\ stale' = stale \cap DOMAIN cache'
    /\ res' = Response("expire", key, 0, <<>>, 0, Message, FALSE, FALSE, <<>>)
    /\ UNCHANGED <<T, qs, procs, db, nextId>>

Expire == \E key \in DOMAIN cache : ExpireKey(key)

-----------------------------------------------------------------------------
(* Write routes *)

\* a handler that deletes the collection key only
InvalidationKeys_patternOnly(t, op, id) ==
  IF t = "Player" THEN <<>> ELSE <<<<ListNs(t), ":", "*">>>>

\* the redisClient.del calls a write handler makes after its mutation, in
\* order: del('types:*') on create; del(`type:${id}`), del('types:*') on
\* update and delete; none in the players router
InvalidationKeys(t, op, id) ==
  IF ~Invalidates(t) THEN <<>>
  ELSE IF op = "create" THEN <<PatternKey(t)>>
  ELSE <<DetailKey(t, id), PatternKey(t)>>

RECURSIVE RunDels(_, _, _, _)

\* del calls that reject when the key they name is not in the store
RunDels_strict(c, keys, failIdx, i) ==
  IF i > Len(keys) THEN [cache |-> c, trace |-> <<>>, ok |-> TRUE]
  ELSE IF i = failIdx \/ keys[i] \notin DOMAIN c
  THEN [cache |-> c, trace |-> <<Ev("del", keys[i], FALSE)>>, ok |-> FALSE]
  ELSE LET r == RunDels(Del(c, keys[i]), keys, failIdx, i + 1)
       IN [cache |-> r.cache, trace |-> <<DelEv(c, keys[i])>> \o r.trace,
           ok |-> r.ok]

\* the awaited del calls one after the other; the failIdx-th one throws
RunDels(c, keys, failIdx, i) ==
  IF i > Len(keys) THEN [cache |-> c, trace |-> <<>>, ok |-> TRUE]
  ELSE IF i = failIdx
  THEN [cache |-> c, trace |-> <<Ev("del", keys[i], FALSE)>>, ok |-> FALSE]
  ELSE LET r == RunDels(Del(c, keys[i]), keys, failIdx, i + 1)
       IN [cache |-> r.cache, trace |-> <<DelEv(c, keys[i])>> \o r.trace,
           ok |-> r.ok]

FailIdx(failAt) == IF failAt = "del1" THEN 1 ELSE IF failAt = "del2" THEN 2 ELSE 0

\* a write handler that invalidates first and mutates afterwards
AfterCommit_delFirst(t, op, c, d2, id, failAt, pre, okStatus, errStatus, body) ==
  LET r == RunDels(c, InvalidationKeys(t, op, id), 0, 1)
  IN Outcome(r.cache, d2, okStatus, body, FALSE,
             r.trace \o pre \o <<Ev("respond", NoKey, TRUE)>>)

\* the rest of a write handler once its mutation is committed (d2): the
\* invalidation calls, the populate of the response, the response; a throw
\* lands in the handler's catch (errStatus); a process that dies right after
\* the mutation ("crash") makes no further call and sends no response
AfterCommit(t, op, c, d2, id, failAt, pre, okStatus, errStatus, body) ==
  LET r == RunDels(c, InvalidationKeys(t, op, id), FailIdx(failAt), 1)
      pop == Populates(t) /\ op # "delete"
      tr == pre \o r.trace
  IN IF failAt = "crash"
     THEN Outcome(c, d2, 0, Message, FALSE, pre)
     ELSE IF ~r.ok
     THEN Outcome(r.cache, d2, errStatus, Message, FALSE,
                  Append(tr, Ev("respond", NoKey, FALSE)))
     ELSE IF pop /\ failAt = "populate"
     THEN Outcome(r.cache, d2, errStatus, Message, FALSE,
                  tr \o <<Ev("populate", NoKey, FALSE), Ev("respond", NoKey, FALSE)>>)
     ELSE Outcome(r.cache, d2, okStatus, body, FALSE,
                  tr \o (IF pop THEN <<Ev("populate", NoKey, TRUE)>> ELSE <<>>)
                     \o <<Ev("respond", NoKey, TRUE)>>)

\* a rejection that flushes the cache on its way out
Rejected_flush(c, d, status, trace) ==
  Outcome(<<>>, d, status, Message, FALSE,
          trace \o <<Ev("del", NoKey, TRUE), Ev("respond", NoKey, FALSE)>>)

\* a handler that answers before any mutation (validation, not found, throw)
Rejected(c, d, status, trace) ==
  Outcome(c, d, status, Message, FALSE, Append(trace, Ev("respond", NoKey, FALSE)))

\* the faults that can strike the calls a write handler of type t makes
WriteFaults(t, op) ==
  {"none", "crash"}
    \cup (IF op = "delete" THEN {} ELSE {"validate"})
    \cup (IF op = "create" THEN {"save"} ELSE {"find"})
    \cup (IF op = "update" THEN {"save"} ELSE {})
    \cup (IF Invalidates(t) THEN {"del1"} ELSE {})
    \cup (IF Invalidates(t) /\ op # "create" THEN {"del2"} ELSE {})
    \cup (IF Populates(t) /\ op # "delete" THEN {"populate"} ELSE {})

\* router.post('/')
Create(t, c, d, id, season, failAt) ==
  IF failAt = "validate" THEN Rejected(c, d, 400, <<>>)
  ELSE IF failAt = "save" THEN Rejected(c, d, 400, <<Ev("save", NoKey, FALSE)>>)
  ELSE LET doc == MkDoc(id, season)
           d2 == [k \in DOMAIN d \cup {id} |-> IF k = id THEN doc ELSE d[k]]
       IN AfterCommit(t, "create", c, d2, id, failAt, <<Ev("save", NoKey, TRUE)>>,
                      201, 400, Stringify(ObjectOf(doc)))

\* router.patch('/:id'); in the players router a body with a position reads
\* validPositions, which is declared inside the post handler only
Update(t, c, d, id, season, hasPosition, failAt) ==
  IF failAt = "validate" THEN Rejected(c, d, 400, <<>>)
  ELSE IF t = "Player" /\ hasPosition THEN Rejected(c, d, 400, <<>>)
  ELSE IF failAt = "find" THEN Rejected(c, d, 400, <<Ev("find", NoKey, FALSE)>>)
  ELSE IF id \notin DOMAIN d THEN Rejected(c, d, 404, <<Ev("find", NoKey, TRUE)>>)
  ELSE IF failAt = "save"
  THEN Rejected(c, d, 400, <<Ev("find", NoKey, TRUE), Ev("save", NoKey, FALSE)>>)
  ELSE LET doc == MkDoc(id, season)
           d2 == [d EXCEPT ![id] = doc]
       IN AfterCommit(t, "update", c, d2, id, failAt,
                      <<Ev("find", NoKey, TRUE), Ev("save", NoKey, TRUE)>>,
                      200, 400, Stringify(ObjectOf(doc)))

\* router.delete('/:id')
Delete(t, c, d, id, failAt) ==
  IF failAt = "find" THEN Rejected(c, d, 500, <<Ev("remove", NoKey, FALSE)>>)
  ELSE IF id \notin DOMAIN d THEN Rejected(c, d, 404, <<Ev("remove", NoKey, TRUE)>>)
  ELSE LET d2 == [k \in DOMAIN d \ {id} |-> d[k]]
       IN AfterCommit(t, "delete", c, d2, id, failAt, <<Ev("remove", NoKey, TRUE)>>,
                      200, 500, Message)

Success(status) == status \in {200, 201}

\* cache entries of the written entity's reads that the write left in place
LeftBehind(t, c, id) ==
  {k \in DOMAIN c : IsListKeyOf(t, k) \/ (CachesDetail(t) /\ k = DetailKey(t, id))}

\* bookkeeping of a write request: which entries are older than a write
WriteStep(op, id, o) ==
  /\ cache' = o.cache
  /\ db' = o.db
  /\ stale' = IF Success(o.status)
              THEN (stale \cap DOMAIN o.cache) \cup LeftBehind(T, o.cache, id)
              ELSE stale \cap DOMAIN o.cache
  /\ res' = Response(op, NoKey, id, <<>>, o.status, o.body, FALSE, FALSE, o.trace)
  /\ UNCHANGED <<T, qs, procs>>

CreateReq ==
  /\ nextId <= MaxId
  /\ \E season \in Seasons, failAt \in WriteFaults(T, "create") :
       LET o == Create(T, cache, db, nextId, season, failAt)
       IN /\ WriteStep("create", nextId, o)
          /\ nextId' = IF nextId \in DOMAIN o.db THEN nextId + 1 ELSE nextId

UpdateReq ==
  \E id \in Ids, season \in Seasons,
     hasPosition \in (IF T = "Player" THEN BOOLEAN ELSE {FALSE}),
     failAt \in WriteFaults(T, "update") :
    /\ WriteStep("update", id, Update(T, cache, db, id, season, hasPosition, failAt))
    /\ UNCHANGED nextId

DeleteReq ==
  \E id \in Ids, failAt \in WriteFaults(T, "delete") :
    /\ WriteStep("delete", id, Delete(T, cache, db, id, failAt))
    /\ UNCHANGED nextId

Init ==
  /\ T \in Types
  /\ qs = Queries
  /\ procs = <<>>
  /\ db = <<>>
  /\ nextId = 1
  /\ cache = <<>>
  /\ stale = {}
  /\ res = Response("init", NoKey, 0, <<>>, 0, Message, FALSE, FALSE, <<>>)

Next == ListReq \/ DetailReq \/ CreateReq \/ UpdateReq \/ DeleteReq \/ Expire

Spec == Init /\ [][Next]_vars

\* the list route alone, for the queries two clients send: the store holds
\* one document and no write happens
InitKeys ==
  /\ T \in Types
  /\ qs \in {{a, b} : a \in WideQueries, b \in WideQueries}
  /\ procs = <<>>
  /\ db = <<MkDoc(1, "s1")>>
  /\ nextId = 2
  /\ cache = <<>>
  /\ stale = {}
  /\ res = Response("init", NoKey, 0, <<>>, 0, Message, FALSE, FALSE, <<>>)

NextKeys == ListReq \/ Expire

SpecKeys == InitKeys /\ [][NextKeys]_vars

\* the list route and the detail route for any path segment, on a store of
\* one document
InitPaths ==
  /\ T \in Types
  /\ qs = Queries
  /\ procs = <<>>
  /\ db = <<MkDoc(1, "s1")>>
  /\ nextId = 2
  /\ cache = <<>>
  /\ stale = {}
  /\ res = Response("init", NoKey, 0, <<>>, 0, Message, FALSE, FALSE, <<>>)

NextPaths == ListReq \/ PathReq \/ Expire

SpecPaths == InitPaths /\ [][NextPaths]_vars

\* the read routes in front of a cache whose entries can go bad, on a store
\* that holds the requested document or not
InitBad ==
  /\ T \in Types
  /\ qs = Queries
  /\ procs = <<>>
  /\ db \in {<<>>, <<MkDoc(1, "s1")>>}
  /\ nextId = Len(db) + 1
  /\ cache = <<>>
  /\ stale = {}
  /\ res = Response("init", NoKey, 0, <<>>, 0, Message, FALSE, FALSE, <<>>)

NextBad == ListReq \/ DetailReq \/ Corrupt

SpecBad == InitBad /\ [][NextBad]_vars

-----------------------------------------------------------------------------
(* The routers without a cache: teams, standings, fixtures *)
PlainTypes == {"Team", "Standing", "Fixture"}

\* two of the fields each router lists in allowedUpdates
FieldsOf(t) ==
  CASE t = "Team" -> {"name", "founded"}
    [] t = "Standing" -> {"played", "points"}
    [] t = "Fixture" -> {"venue", "status"}

\* field values as the request body carries them; "x" is not a number
Values == {"1", "x"}
IsNumber(v) == v \in {"0", "1"}

\* keys a request body can hold: the allowed ones and one that is not
BodyKeys(t) == FieldsOf(t) \cup {"bogus"}
Bodies(t) == UNION {[ks -> Values] : ks \in SUBSET BodyKeys(t)}

\* the type checks a patch handler makes on the body before findById:
\* standings wants every field but team to be a number, teams wants founded
\* to be a number, fixtures checks nothing
ValidValues(t, body) ==
  \A f \in DOMAIN body :
    (t = "Standing" \/ (t = "Team" /\ f = "founded")) => IsNumber(body[f])

\* a new document of the type
PlainDoc(t, id) ==
  [f \in FieldsOf(t) \cup {"tag", "id"} |->
     IF f = "tag" THEN "doc" ELSE IF f = "id" THEN IdName[id] ELSE "0"]

\* res.json(document): the stored fields under their names
PlainJson(t, doc) == [f \in FieldsOf(t) \cup {"id"} |-> doc[f]]

PlainArray(t, d) ==
  [kind |-> "array",
   items |-> [i \in 1..Len(FindUpTo(t, d, <<>>, MaxId)) |->
                PlainJson(t, FindUpTo(t, d, <<>>, MaxId)[i])]]
PlainObject(t, doc) == [kind |-> "object", items |-> <<PlainJson(t, doc)>>]

\* router.get('/'): find, res.json
PlainList(t, c, d, failAt) ==
  IF failAt = "find"
  THEN Outcome(c, d, 500, Message, FALSE,
               <<Ev("find", NoKey, FALSE), Ev("respond", NoKey, FALSE)>>)
  ELSE Outcome(c, d, 200, PlainArray(t, d), FALSE,
               <<Ev("find", NoKey, TRUE), Ev("respond", NoKey, TRUE)>>)

\* a detail route that answers from the cache when it can and sets it
PlainGet_cached(t, c, d, id, failAt) ==
  IF Has(c, <<"team", ":", IdName[id]>>)
  THEN Outcome(c, d, 200, Get(c, <<"team", ":", IdName[id]>>), TRUE,
               <<Ev("get", <<"team", ":", IdName[id]>>, TRUE), Ev("respond", NoKey, TRUE)>>)
  ELSE IF id \notin DOMAIN d
  THEN Outcome(c, d, 404, Message, FALSE,
               <<Ev("find", NoKey, TRUE), Ev("respond", NoKey, TRUE)>>)
  ELSE Outcome(Setex(c, <<"team", ":", IdName[id]>>, PlainObject(t, d[id])), d, 200,
               PlainObject(t, d[id]), FALSE,
               <<Ev("find", NoKey, TRUE), Ev("setex", <<"team", ":", IdName[id]>>, TRUE),
                 Ev("respond", NoKey, TRUE)>>)

\* router.get('/:id'): findById, 404 or res.json
PlainGet(t, c, d, id, failAt) ==
  IF failAt = "find"
  THEN Outcome(c, d, 500, Message, FALSE,
               <<Ev("find", NoKey, FALSE), Ev("respond", NoKey, FALSE)>>)
  ELSE IF id \notin DOMAIN d
  THEN Outcome(c, d, 404, Message, FALSE,
               <<Ev("find", NoKey, TRUE), Ev("respond", NoKey, TRUE)>>)
  ELSE Outcome(c, d, 200, PlainObject(t, d[id]), FALSE,
               <<Ev("find", NoKey, TRUE), Ev("respond", NoKey, TRUE)>>)

\* router.post('/'): required fields, save, 201
PlainCreate(t, c, d, id, failAt) ==
  IF failAt = "validate" THEN Rejected(c, d, 400, <<>>)
  ELSE IF failAt = "save" THEN Rejected(c, d, 400, <<Ev("save", NoKey, FALSE)>>)
  ELSE Outcome(c, [k \in DOMAIN d \cup {id} |-> IF k = id THEN PlainDoc(t, id) ELSE d[k]],
               201, PlainObject(t, PlainDoc(t, id)), FALSE,
               <<Ev("save", NoKey, TRUE), Ev("respond", NoKey, TRUE)>>)

\* updates.forEach((update) => doc[update] = req.body[update])
Apply(doc, body) ==
  [f \in DOMAIN doc |-> IF f \in DOMAIN body THEN body[f] ELSE doc[f]]

\* an update that sets the allowed fields of a body and skips the others
PlainUpdate_lenient(t, c, d, id, body, failAt) ==
  IF id \notin DOMAIN d THEN Rejected(c, d, 404, <<Ev("find", NoKey, TRUE)>>)
  ELSE Outcome(c, [d EXCEPT ![id] =
                     Apply(d[id], [f \in DOMAIN body \cap FieldsOf(t) |-> body[f]])],
               IF DOMAIN body \subseteq FieldsOf(t) THEN 200 ELSE 400,
               PlainObject(t, d[id]), FALSE,
               <<Ev("find", NoKey, TRUE), Ev("save", NoKey, TRUE),
                 Ev("respond", NoKey, TRUE)>>)

\* router.patch('/:id'): every key allowed, type checks, findById, set the
\* fields, save, res.json
PlainUpdate(t, c, d, id, body, failAt) ==
  IF ~(DOMAIN body \subseteq FieldsOf(t)) THEN Rejected(c, d, 400, <<>>)
  ELSE IF ~ValidValues(t, body) THEN Rejected(c, d, 400, <<>>)
  ELSE IF failAt = "find" THEN Rejected(c, d, 400, <<Ev("find", NoKey, FALSE)>>)
  ELSE IF id \notin DOMAIN d THEN Rejected(c, d, 404, <<Ev("find", NoKey, TRUE)>>)
  ELSE IF failAt = "save"
  THEN Rejected(c, d, 400, <<Ev("find", NoKey, TRUE), Ev("save", NoKey, FALSE)>>)
  ELSE Outcome(c, [d EXCEPT ![id] = Apply(d[id], body)], 200,
               PlainObject(t, Apply(d[id], body)), FALSE,
               <<Ev("find", NoKey, TRUE), Ev("save", NoKey, TRUE),
                 Ev("respond", NoKey, TRUE)>>)

\* router.delete('/:id'): findByIdAndDelete, 404 or message
PlainDelete(t, c, d, id, failAt) ==
  IF failAt = "find" THEN Rejected(c, d, 500, <<Ev("remove", NoKey, FALSE)>>)
  ELSE IF id \notin DOMAIN d THEN Rejected(c, d, 404, <<Ev("remove", NoKey, TRUE)>>)
  ELSE Outcome(c, [k \in DOMAIN d \ {id} |-> d[k]], 200, Message, FALSE,
               <<Ev("remove", NoKey, TRUE), Ev("respond", NoKey, TRUE)>>)

\* one request to a router without a cache; req is the request body
PlainStep(op, id, body, o) ==
  /\ cache' = o.cache
  /\ db' = o.db
  /\ res' = [req |-> body] @@
             Response(op, NoKey, id, <<>>, o.status, o.body, o.hit, FALSE, o.trace)
  /\ UNCHANGED <<T, qs, procs, stale>>

PlainListReq ==
  \E failAt \in {"none", "find"} :
    PlainStep("list", 0, <<>>, PlainList(T, cache, db, failAt)) /\ UNCHANGED nextId

PlainGetReq ==
  \E id \in Ids, failAt \in {"none", "find"} :
    PlainStep("detail", id, <<>>, PlainGet(T, cache, db, id, failAt)) /\ UNCHANGED nextId

PlainCreateReq ==
  /\ nextId <= MaxId
  /\ \E failAt \in {"none", "validate", "save"} :
       LET o == PlainCreate(T, cache, db, nextId, failAt)
       IN /\ PlainStep("create", nextId, <<>>, o)
          /\ nextId' = IF nextId \in DOMAIN o.db THEN nextId + 1 ELSE nextId

PlainUpdateReq ==
  \E id \in Ids, body \in Bodies(T), failAt \in {"none", "find", "save"} :
    PlainStep("update", id, body, PlainUpdate(T, cache, db, id, body, failAt))
      /\ UNCHANGED nextId

PlainDeleteReq ==
  \E id \in Ids, failAt \in {"none", "find"} :
    PlainStep("delete", id, <<>>, PlainDelete(T, cache, db, id, failAt))
      /\ UNCHANGED nextId

\* the shared Redis may hold entries of the cached routers
InitPlain ==
  /\ T \in PlainTypes
  /\ qs = Queries
  /\ procs = <<>>
  /\ db = <<>>
  /\ nextId = 1
  /\ cache \in {<<>>, Setex(<<>>, ListKey("Player", <<>>), Stringify(ArrayOf(<<>>)))}
  /\ stale = {}
  /\ res = [req |-> <<>>] @@
           Response("init", NoKey, 0, <<>>, 0, Message, FALSE, FALSE, <<>>)

NextPlain ==
  PlainListReq \/ PlainGetReq \/ PlainCreateReq \/ PlainUpdateReq \/ PlainDeleteReq

SpecPlain == InitPlain /\ [][NextPlain]_vars

-----------------------------------------------------------------------------
(* The players router with request bodies: post, patch, get by id, delete *)

\* const validPositions = ['Goalkeeper', 'Defender', 'Midfielder', 'Forward']
validPositions == {"Goalkeeper", "Defender", "Midfielder", "Forward"}

\* the handlers whose body declares the identifier validPositions
DeclaresValidPositions == {"post"}

\* two of the fields the patch handler lists in allowedUpdates
PlayerFields == {"position", "playerNumber"}

\* the values a request body can give a key; "Striker" is no valid position
\* and "x" is not a number
PlayerValues(f) ==
  IF f = "position" THEN {"Forward", "Defender", "Striker"} ELSE Values

PlayerBodies ==
  UNION {{b \in [ks -> UNION {PlayerValues(f) : f \in ks}] :
            \A f \in ks : b[f] \in PlayerValues(f)} :
         ks \in SUBSET (PlayerFields \cup {"bogus"})}

\* the JSON messages of the players router
MsgNone == "none"
MsgRequired == "Name, team, and position are required fields."
MsgInvalidUpdates == "Invalid updates!"
MsgInvalidPosition == "Invalid player position."
MsgNumber == "Player number must be a number."
MsgNotFound == "Player not found"
MsgDeleted == "Player deleted successfully"
MsgReference == "validPositions is not defined"
MsgError == "error.message"
MsgFetch == "Error fetching player"
MsgDelete == "Error deleting player"

\* req.body.position && !validPositions.includes(req.body.position), as the
\* handler evaluates it: reading an identifier that no enclosing scope
\* declares throws a ReferenceError
PositionCheck(handler, body) ==
  IF "position" \notin DOMAIN body THEN "pass"
  ELSE IF handler \notin DeclaresValidPositions THEN "ReferenceError"
  ELSE IF body["position"] \in validPositions THEN "pass"
  ELSE "invalid"

\* playerNumber !== undefined && typeof playerNumber !== 'number'
NumberCheck(body) == "playerNumber" \in DOMAIN body => IsNumber(body["playerNumber"])

\* new Player({name, team, position, playerNumber, photoUrl})
PlayerDoc(id, body) ==
  [tag |-> "doc", id |-> IdName[id], position |-> body["position"],
   playerNumber |-> IF "playerNumber" \in DOMAIN body THEN body["playerNumber"] ELSE "0"]

\* res.json(populatedPlayer)
PlayerObject(doc) ==
  [kind |-> "object",
   items |-> <<[id |-> doc.id, position |-> doc.position,
                playerNumber |-> doc.playerNumber]>>]

\* an answer that carries a message
Told(c, d, status, msg, trace) ==
  [msg |-> msg] @@ Outcome(c, d, status, Message, FALSE,
                           Append(trace, Ev("respond", NoKey, status < 400)))

\* an answer that carries a player
Gave(c, d, status, doc, trace) ==
  [msg |-> MsgNone] @@ Outcome(c, d, status, PlayerObject(doc), FALSE,
                               Append(trace, Ev("respond", NoKey, TRUE)))

\* router.post('/'): required fields, position, playerNumber, save, populate
PlayerPost(c, d, id, body, failAt) ==
  IF "position" \notin DOMAIN body THEN Told(c, d, 400, MsgRequired, <<>>)
  ELSE IF PositionCheck("post", body) = "ReferenceError"
  THEN Told(c, d, 400, MsgReference, <<>>)
  ELSE IF PositionCheck("post", body) = "invalid"
  THEN Told(c, d, 400, MsgInvalidPosition, <<>>)
  ELSE IF ~NumberCheck(body) THEN Told(c, d, 400, MsgNumber, <<>>)
  ELSE IF failAt = "save" THEN Told(c, d, 400, MsgError, <<Ev("save", NoKey, FALSE)>>)
  ELSE Gave(c, [k \in DOMAIN d \cup {id} |-> IF k = id THEN PlayerDoc(id, body) ELSE d[k]],
            201, PlayerDoc(id, body),
            <<Ev("save", NoKey, TRUE), Ev("populate", NoKey, TRUE)>>)

\* router.patch('/:id'): allowed keys, position, playerNumber, findById,
\* set the fields, save, populate; the catch answers 400 with error.message
PlayerPatch(c, d, id, body, failAt) ==
  IF ~(DOMAIN body \subseteq PlayerFields) THEN Told(c, d, 400, MsgInvalidUpdates, <<>>)
  ELSE IF PositionCheck("patch", body) = "ReferenceError"
  THEN Told(c, d, 400, MsgReference, <<>>)
  ELSE IF PositionCheck("patch", body) = "invalid"
  THEN Told(c, d, 400, MsgInvalidPosition, <<>>)
  ELSE IF ~NumberCheck(body) THEN Told(c, d, 400, MsgNumber, <<>>)
  ELSE IF failAt = "find" THEN Told(c, d, 400, MsgError, <<Ev("find", NoKey, FALSE)>>)
  ELSE IF id \notin DOMAIN d THEN Told(c, d, 404, MsgNotFound, <<Ev("find", NoKey, TRUE)>>)
  ELSE IF failAt = "save"
  THEN Told(c, d, 400, MsgError, <<Ev("find", NoKey, TRUE), Ev("save", NoKey, FALSE)>>)
  ELSE Gave(c, [d EXCEPT ![id] = Apply(d[id], body)], 200, Apply(d[id], body),
            <<Ev("find", NoKey, TRUE), Ev("save", NoKey, TRUE),
              Ev("populate", NoKey, TRUE)>>)

\* router.get('/:id'): findById, populate, 404 or res.json
PlayerGet(c, d, id, failAt) ==
  IF failAt = "find" THEN Told(c, d, 500, MsgFetch, <<Ev("find", NoKey, FALSE)>>)
  ELSE IF id \notin DOMAIN d THEN Told(c, d, 404, MsgNotFound, <<Ev("find", NoKey, TRUE)>>)
  ELSE Gave(c, d, 200, d[id], <<Ev("find", NoKey, TRUE)>>)

\* router.delete('/:id'): findByIdAndDelete, 404 or message
PlayerDelete(c, d, id, failAt) ==
  IF failAt = "find" THEN Told(c, d, 500, MsgDelete, <<Ev("remove", NoKey, FALSE)>>)
  ELSE IF id \notin DOMAIN d THEN Told(c, d, 404, MsgNotFound, <<Ev("remove", NoKey, TRUE)>>)
  ELSE Told(c, [k \in DOMAIN d \ {id} |-> d[k]], 200, MsgDeleted,
            <<Ev("remove", NoKey, TRUE)>>)

\* one request to the players router; req is the request body
PlayerStep(op, id, body, o) ==
  /\ cache' = o.cache
  /\ db' = o.db
  /\ res' = [req |-> body, msg |-> o.msg] @@
             Response(op, NoKey, id, <<>>, o.status, o.body, o.hit, FALSE, o.trace)
  /\ UNCHANGED <<T, qs, procs, stale>>

PlayerPostReq ==
  /\ nextId <= MaxId
  /\ \E body \in PlayerBodies, failAt \in {"none", "save"} :
       LET o == PlayerPost(cache, db, nextId, body, failAt)
       IN /\ PlayerStep("create", nextId, body, o)
          /\ nextId' = IF nextId \in DOMAIN o.db THEN nextId + 1 ELSE nextId

PlayerPatchReq ==
  \E id \in Ids, body \in PlayerBodies, failAt \in {"none", "find", "save"} :
    PlayerStep("update", id, body, PlayerPatch(cache, db, id, body, failAt))
      /\ UNCHANGED nextId

PlayerGetReq ==
  \E id \in Ids, failAt \in {"none", "find"} :
    PlayerStep("detail", id, <<>>, PlayerGet(cache, db, id, failAt))
      /\ UNCHANGED nextId

PlayerDeleteReq ==
  \E id \in Ids, failAt \in {"none", "find"} :
    PlayerStep("delete", id, <<>>, PlayerDelete(cache, db, id, failAt))
      /\ UNCHANGED nextId

InitPlayer ==
  /\ T = "Player"
  /\ qs = Queries
  /\ procs = <<>>
  /\ db = <<>>
  /\ nextId = 1
  /\ cache = <<>>
  /\ stale = {}
  /\ res = [req |-> <<>>, msg |-> MsgNone] @@
           Response("init", NoKey, 0, <<>>, 0, Message, FALSE, FALSE, <<>>)

NextPlayer == PlayerPostReq \/ PlayerPatchReq \/ PlayerGetReq \/ PlayerDeleteReq

SpecPlayer == InitPlayer /\ [][NextPlayer]_vars

-----------------------------------------------------------------------------
(* Reads that embed other entities: the awards list populates the          *)
(* recipient (a Player) and the recipient's team, while the teams and      *)
(* players routers write those entities                                    *)

\* the references of the one award and the one player of the store
RecipientOf(awardId) == awardId
TeamOf(playerId) == playerId

\* what populate puts in place of a reference to a removed document
Null == "null"

\* Award.find(filter).populate({path: 'recipient', select: '... playerNumber
\* team', populate: {path: 'team', select: 'name code crestUrl'}}): each
\* award with the recipient's playerNumber and the team's name in it
EmbedAward(d, a) ==
  [tag |-> "doc", id |-> a.id,
   recipient |-> IF a.recipient \in DOMAIN d.players
                 THEN d.players[a.recipient].playerNumber ELSE Null,
   team |-> IF a.recipient \in DOMAIN d.players /\ TeamOf(a.recipient) \in DOMAIN d.teams
            THEN d.teams[TeamOf(a.recipient)].name ELSE Null]

EmbedFind(d) == [i \in 1..Len(d.awards) |-> EmbedAward(d, d.awards[i])]

\* JSON.stringify of a populated award or of the plain object parsed from it
StringifyAward(x) ==
  <<IF x.tag = "doc" THEN IdName[x.id] ELSE x.id, x.recipient, x.team>>

\* JSON.parse of one serialized award
ParseAward(t) == [tag |-> "obj", id |-> t[1], recipient |-> t[2], team |-> t[3]]

StringifyAwards(p) ==
  [kind |-> p.kind, items |-> [i \in 1..Len(p.items) |-> StringifyAward(p.items[i])]]
ParseAwards(j) ==
  [kind |-> j.kind, items |-> [i \in 1..Len(j.items) |-> ParseAward(j.items[i])]]

\* an awards list that loads from the store on every request
AwardList_uncached(c, d, q, getOk, failAt) ==
  Outcome(c, d, 200, StringifyAwards(ArrayOf(EmbedFind(d))), FALSE,
          <<Ev("find", NoKey, TRUE), Ev("respond", NoKey, TRUE)>>)

\* router.get('/') of the awards router: guarded get, hit or find with
\* populate, setex, res.json
AwardList(c, d, q, getOk, failAt) ==
  LET key == ListKey("Award", q)
      g == <<Ev("get", key, getOk)>>
      text == StringifyAwards(ArrayOf(EmbedFind(d)))
  IN IF getOk /\ Has(c, key)
     THEN Outcome(c, d, 200, StringifyAwards(ParseAwards(Get(c, key))), TRUE,
                  <<Ev("get", key, TRUE), Ev("respond", NoKey, TRUE)>>)
     ELSE IF failAt = "find"
     THEN ReadCatch(c, d, key, Append(g, Ev("find", NoKey, FALSE)))
     ELSE IF failAt = "setex"
     THEN ReadCatch(c, d, key, g \o <<Ev("find", NoKey, TRUE), Ev("setex", key, FALSE)>>)
     ELSE Outcome(Setex(c, key, text), d, 200, text, FALSE,
                  g \o <<Ev("find", NoKey, TRUE), Ev("setex", key, TRUE),
                         Ev("respond", NoKey, TRUE)>>)

\* one request of the three routers; o.db is the collection the handler
\* works on
EmbedStep(op, key, id, body, o, d2) ==
  /\ cache' = o.cache
  /\ db' = d2
  /\ res' = [req |-> body] @@
             Response(op, key, id, <<>>, o.status, o.body, o.hit, FALSE, o.trace)
  /\ UNCHANGED <<T, qs, procs, stale, nextId>>

AwardListReq ==
  \E q \in qs, getOk \in BOOLEAN, failAt \in ReadFaults :
    EmbedStep("list", ListKey("Award", q), 0, <<>>,
              AwardList(cache, db, q, getOk, failAt), db)

TeamPatchReq ==
  \E id \in Ids, body \in Bodies("Team"), failAt \in {"none", "find", "save"} :
    LET o == PlainUpdate("Team", cache, db.teams, id, body, failAt)
    IN EmbedStep("update", <<"Team">>, id, body, o, [db EXCEPT !.teams = o.db])

TeamDeleteReq ==
  \E id \in Ids, failAt \in {"none", "find"} :
    LET o == PlainDelete("Team", cache, db.teams, id, failAt)
    IN EmbedStep("delete", <<"Team">>, id, <<>>, o, [db EXCEPT !.teams = o.db])

PlayerNumberPatchReq ==
  \E id \in Ids, body \in PlayerBodies, failAt \in {"none", "find", "save"} :
    LET o == PlayerPatch(cache, db.players, id, body, failAt)
    IN EmbedStep("update", <<"Player">>, id, body, o, [db EXCEPT !.players = o.db])

PlayerRemoveReq ==
  \E id \in Ids, failAt \in {"none", "find"} :
    LET o == PlayerDelete(cache, db.players, id, failAt)
    IN EmbedStep("delete", <<"Player">>, id, <<>>, o, [db EXCEPT !.players = o.db])

EmbedExpire ==
  \E key \in DOMAIN cache :
    /\ cache[key].ttl > 0
    /\ EmbedStep("expire", key, 0, <<>>,
                 Outcome(Evict(cache, key), db, 0, Message, FALSE, <<>>), db)

\* one team, one player of that team, one award of that player; no entry
InitEmbed ==
  /\ T = "Award"
  /\ qs = {<<>>}
  /\ procs = <<>>
  /\ db = [awards |-> <<[id |-> 1, recipient |-> RecipientOf(1)]>>,
           players |-> [i \in {1} |-> PlayerDoc(i, [position |-> "Forward"])],
           teams |-> [i \in {1} |-> PlainDoc("Team", i)]]
  /\ nextId = 2
  /\ cache = <<>>
  /\ stale = {}
  /\ res = [req |-> <<>>] @@
           Response("init", NoKey, 0, <<>>, 0, Message, FALSE, FALSE, <<>>)

NextEmbed ==
  \/ AwardListReq \/ TeamPatchReq \/ TeamDeleteReq
  \/ PlayerNumberPatchReq \/ PlayerRemoveReq \/ EmbedExpire

SpecEmbed == InitEmbed /\ [][NextEmbed]_vars

-----------------------------------------------------------------------------
(* The scheduler admin router: register, step by step, for two requests    *)
(* that run concurrently                                                   *)
Registrants == {"a", "b"}
Emails == {"e1@x.y", "e2@x.y"}
Usernames == {"u1", "u2"}
Passwords == {"secret1", "secret2"}

\* new User({email, password, username}); lastLogin is not set
MkUser(email, username, password) ==
  [email |-> email, username |-> username, password |-> password, lastLogin |-> 0]

\* User.findOne({$or: [{email}, {username}]})
Existing(users, email, username) ==
  {i \in DOMAIN users : users[i].email = email \/ users[i].username = username}

\* await user.save(): the store's create inserts the document; a
\* collection with unique indexes on email and username would reject a
\* duplicate (E11000)
SaveUser(d, u) ==
  IF d.unique /\ Existing(d.users, u.email, u.username) # {}
  THEN [ok |-> FALSE, db |-> d]
  ELSE [ok |-> TRUE, db |-> [d EXCEPT !.users = Append(d.users, u)]]

\* a request of the register route: where it is and what it was answered
Reg(pc, email, username, status) ==
  [pc |-> pc, email |-> email, username |-> username, status |-> status]

\* the request arrives: required fields, email format, password length
RegValidate(p) ==
  /\ procs[p].pc = "start"
  /\ \E valid \in BOOLEAN :
       procs' = [procs EXCEPT ![p] =
                   IF valid THEN [@ EXCEPT !.pc = "findOne"]
                   ELSE [@ EXCEPT !.pc = "done", !.status = 400]]
  /\ UNCHANGED <<T, qs, db, nextId, cache, stale, res>>

\* existingUser = await User.findOne(...); if (existingUser) 400
RegFindOne(p) ==
  /\ procs[p].pc = "findOne"
  /\ \E ok \in BOOLEAN :
       procs' = [procs EXCEPT ![p] =
                   IF ~ok THEN [@ EXCEPT !.pc = "done", !.status = 500]
                   ELSE IF Existing(db.users, @.email, @.username) # {}
                   THEN [@ EXCEPT !.pc = "done", !.status = 400]
                   ELSE [@ EXCEPT !.pc = "save"]]
  /\ UNCHANGED <<T, qs, db, nextId, cache, stale, res>>

\* await user.save(); a throw reaches the catch: 500
RegSave(p) ==
  /\ procs[p].pc = "save"
  /\ \E ok \in BOOLEAN, password \in Passwords :
       LET s == SaveUser(db, MkUser(procs[p].email, procs[p].username, password))
       IN IF ok /\ s.ok
          THEN /\ db' = s.db
               /\ procs' = [procs EXCEPT ![p].pc = "sign"]
          ELSE /\ db' = db
               /\ procs' = [procs EXCEPT ![p].pc = "done", ![p].status = 500]
  /\ UNCHANGED <<T, qs, nextId, cache, stale, res>>

\* jwt.sign(...); res.status(201).json({message, token, user})
RegRespond(p) ==
  /\ procs[p].pc = "sign"
  /\ \E ok \in BOOLEAN :
       procs' = [procs EXCEPT ![p].pc = "done",
                              ![p].status = IF ok THEN 201 ELSE 500]
  /\ UNCHANGED <<T, qs, db, nextId, cache, stale, res>>

\* two register requests with any emails and usernames, on a collection
\* that holds no user or one, with or without unique indexes
InitRegister ==
  /\ T = "User"
  /\ qs = {}
  /\ procs \in [Registrants -> {Reg("start", e, u, 0) : e \in Emails, u \in Usernames}]
  /\ \E unique \in BOOLEAN, users \in {<<>>, <<MkUser("e1@x.y", "u1", "secret1")>>} :
       db = [users |-> users, unique |-> unique]
  /\ nextId = 1
  /\ cache = <<>>
  /\ stale = {}
  /\ res = Response("init", NoKey, 0, <<>>, 0, Message, FALSE, FALSE, <<>>)

NextRegister ==
  \E p \in Registrants : RegValidate(p) \/ RegFindOne(p) \/ RegSave(p) \/ RegRespond(p)

SpecRegister == InitRegister /\ [][NextRegister]_vars

-----------------------------------------------------------------------------
(* The scheduler admin router: login *)
MaxClock == 3       \* number of successive values new Date() takes

\* the password as the model's pre-save hook stores it
Hash(password) == <<"hash", password>>

\* user.comparePassword(password)
ComparePassword(user, password) == user.password = Hash(password)

\* what a login request can carry; "" is a missing field
LoginEmails == Emails \cup {"e3@x.y", ""}
LoginPasswords == Passwords \cup {""}

MsgRequiredLogin == "Email and password are required"
MsgInvalidCredentials == "Invalid credentials"
MsgWelcome == "Welcome"
MsgLoginError == "Error logging in scheduler admin"

\* User.findOne({ email })
FindByEmail(users, email) == {i \in DOMAIN users : users[i].email = email}

\* the response of the login route: status, message, token or none, user
Answer(d, status, msg, token, user, trace) ==
  [db |-> d, status |-> status, msg |-> msg, token |-> token, user |-> user,
   trace |-> trace]

\* a login that tells an unknown email from a wrong password
Login_userNotFound(d, email, password, now, failAt) ==
  IF FindByEmail(d.users, email) = {}
  THEN Answer(d, 404, "User not found", FALSE, "none", <<Ev("find", NoKey, TRUE)>>)
  ELSE Answer(d, 401, MsgInvalidCredentials, FALSE, "none",
              <<Ev("find", NoKey, TRUE), Ev("compare", NoKey, TRUE)>>)

\* router.post('/login'): required fields, findOne, comparePassword,
\* lastLogin = new Date(), save, jwt.sign, res.json; the catch answers 500
Login(d, email, password, now, failAt) ==
  LET found == FindByEmail(d.users, email)
      i == CHOOSE k \in found : \A j \in found : k <= j
      d2 == [d EXCEPT !.users[i].lastLogin = now]
      f == <<Ev("find", NoKey, TRUE)>>
      c == Append(f, Ev("compare", NoKey, TRUE))
  IN IF email = "" \/ password = ""
     THEN Answer(d, 400, MsgRequiredLogin, FALSE, "none", <<>>)
     ELSE IF failAt = "find"
     THEN Answer(d, 500, MsgLoginError, FALSE, "none", <<Ev("find", NoKey, FALSE)>>)
     ELSE IF found = {}
     THEN Answer(d, 401, MsgInvalidCredentials, FALSE, "none", f)
     ELSE IF failAt = "compare"
     THEN Answer(d, 500, MsgLoginError, FALSE, "none",
                 Append(f, Ev("compare", NoKey, FALSE)))
     ELSE IF ~ComparePassword(d.users[i], password)
     THEN Answer(d, 401, MsgInvalidCredentials, FALSE, "none", c)
     ELSE IF failAt = "save"
     THEN Answer(d, 500, MsgLoginError, FALSE, "none", Append(c, Ev("save", NoKey, FALSE)))
     ELSE IF failAt = "sign"
     THEN Answer(d2, 500, MsgLoginError, FALSE, "none",
                 c \o <<Ev("save", NoKey, TRUE), Ev("sign", NoKey, FALSE)>>)
     ELSE Answer(d2, 200, MsgWelcome, TRUE, d.users[i].username,
                 c \o <<Ev("save", NoKey, TRUE), Ev("sign", NoKey, TRUE)>>)

LoginReq ==
  /\ nextId <= MaxClock
  /\ \E email \in LoginEmails, password \in LoginPasswords,
        failAt \in {"none", "find", "compare", "save", "sign"} :
       LET o == Login(db, email, password, nextId, failAt)
       IN /\ db' = o.db
          /\ nextId' = IF \E k \in DOMAIN o.trace : o.trace[k].e = "save"
                       THEN nextId + 1 ELSE nextId
          /\ res' = [op |-> "login", email |-> email, password |-> password,
                     status |-> o.status, msg |-> o.msg, token |-> o.token,
                     user |-> o.user, trace |-> o.trace]
  /\ UNCHANGED <<T, qs, procs, cache, stale>>

\* two registered users whose passwords were hashed on save
InitLogin ==
  /\ T = "User"
  /\ qs = {}
  /\ procs = <<>>
  /\ db = [users |-> <<MkUser("e1@x.y", "u1", Hash("secret1")),
                       MkUser("e2@x.y", "u2", Hash("secret2"))>>,
           unique |-> TRUE]
  /\ nextId = 1
  /\ cache = <<>>
  /\ stale = {}
  /\ res = [op |-> "init", email |-> "", password |-> "", status |-> 0,
            msg |-> MsgNone, token |-> FALSE, user |-> "none", trace |-> <<>>]

NextLogin == LoginReq

SpecLogin == InitLogin /\ [][NextLogin]_vars

\* every key a route of some type can write
AllKeys ==
  UNION {{ListKey(t, q) : q \in Queries} \cup {DetailKey(t, id) : id \in Ids} :
         t \in Types}

\* time passes: the server drops an entry whose time to live has run out
Fairness == \A k \in AllKeys : WF_vars(ExpireKey(k))

SpecLive == Init /\ [][Next]_vars /\ Fairness

-----------------------------------------------------------------------------
(* Overlapping requests on one individual key: two GET /:id and one        *)
(* PATCH /:id of the same document, each advancing from await to await     *)
Readers == {"r1", "r2"}
Writer == "w"
TheId == 1

\* a request in flight: where it stands, what it loaded, what it passed to
\* res.json, whether it was a hit, whether its client has gone away
Proc(pc, val, out, hit) ==
  [pc |-> pc, val |-> val, out |-> out, hit |-> hit, gone |-> FALSE]

\* a findById that answers a document of its own making
Fetch_default(d, id) == ObjectOf(MkDoc(id, "s2"))

\* await Model.findById(req.params.id)
Fetch(d, id) == ObjectOf(d[id])

\* cachedX = await redisClient.get(cacheKey); if (cachedX) return res.json(...)
RGet(p) ==
  LET key == DetailKey(T, TheId)
  IN /\ procs[p].pc = "get"
     /\ IF Has(cache, key)
        THEN /\ procs' = [procs EXCEPT ![p] =
                            Proc("done", Message, Stringify(Parse(Get(cache, key))), TRUE)]
             /\ res' = Response("detail", key, TheId, <<>>, 200,
                                Stringify(Parse(Get(cache, key))), TRUE, FALSE, <<>>)
        ELSE /\ procs' = [procs EXCEPT ![p].pc = "load"]
             /\ UNCHANGED res
     /\ UNCHANGED <<T, qs, db, nextId, cache, stale>>

\* the client closes the connection while the store query is pending; no
\* handler listens for the close, the request object is all that changes
Disconnect(p) ==
  /\ procs[p].pc = "load"
  /\ ~procs[p].gone
  /\ procs' = [procs EXCEPT ![p].gone = TRUE]
  /\ UNCHANGED <<T, qs, db, nextId, cache, stale, res>>

\* a store query that is abandoned when the client has gone away
RLoad_abortable(p) ==
  /\ procs[p].pc = "load"
  /\ ~procs[p].gone
  /\ procs' = [procs EXCEPT ![p].pc = "set", ![p].val = ObjectOf(db[TheId])]
  /\ UNCHANGED <<T, qs, db, nextId, cache, stale, res>>

\* const x = await Model.findById(req.params.id)
RLoad(p) ==
  /\ procs[p].pc = "load"
  /\ procs' = [procs EXCEPT ![p].pc = "set", ![p].val = Fetch(db, TheId)]
  /\ UNCHANGED <<T, qs, db, nextId, cache, stale, res>>

\* await redisClient.setex(cacheKey, 3600, JSON.stringify(x)); res.json(x);
\* the response reaches the client if the connection is still there
RSet(p) ==
  LET key == DetailKey(T, TheId)
  IN /\ procs[p].pc = "set"
     /\ cache' = Populate(cache, key, procs[p].val)
     /\ procs' = [procs EXCEPT ![p].pc = "done", ![p].out = Stringify(procs[p].val)]
     /\ res' = IF procs[p].gone THEN res
               ELSE Response("detail", key, TheId, <<>>, 200, Stringify(procs[p].val),
                             FALSE, FALSE, <<>>)
     /\ UNCHANGED <<T, qs, db, nextId, stale>>

\* const x = await Model.findById(req.params.id)
WFind ==
  /\ procs[Writer].pc = "find"
  /\ procs' = [procs EXCEPT ![Writer].pc = "save", ![Writer].val = Fetch(db, TheId)]
  /\ UNCHANGED <<T, qs, db, nextId, cache, stale, res>>

\* updates.forEach(...); await x.save()
WSave ==
  /\ procs[Writer].pc = "save"
  /\ \E season \in Seasons :
       /\ db' = [db EXCEPT ![TheId] = MkDoc(TheId, season)]
       /\ procs' = [procs EXCEPT ![Writer].pc = "del1",
                                 ![Writer].val = ObjectOf(MkDoc(TheId, season))]
  /\ UNCHANGED <<T, qs, nextId, cache, stale, res>>

\* await redisClient.del(`type:${id}`), then await redisClient.del('types:*')
WDel(i) ==
  /\ procs[Writer].pc = (IF i = 1 THEN "del1" ELSE "del2")
  /\ cache' = Del(cache, InvalidationKeys(T, "update", TheId)[i])
  /\ procs' = [procs EXCEPT ![Writer].pc = IF i = 1 THEN "del2" ELSE "respond"]
  /\ UNCHANGED <<T, qs, db, nextId, stale, res>>

\* (await x.populate(...);) res.json(x)
WRespond ==
  /\ procs[Writer].pc = "respond"
  /\ procs' = [procs EXCEPT ![Writer].pc = "done",
                            ![Writer].out = Stringify(procs[Writer].val)]
  /\ res' = Response("update", NoKey, TheId, <<>>, 200, Stringify(procs[Writer].val),
                     FALSE, FALSE, <<>>)
  /\ UNCHANGED <<T, qs, db, nextId, cache, stale>>

InitConc ==
  /\ T \in {t \in Types : CachesDetail(t) /\ Invalidates(t)}
  /\ qs = Queries
  /\ procs = [p \in Readers \cup {Writer} |->
               Proc(IF p = Writer THEN "find" ELSE "get", Message, Message, FALSE)]
  /\ db = <<MkDoc(TheId, "s1")>>
  /\ nextId = 2
  /\ cache = <<>>
  /\ stale = {}
  /\ res = Response("init", NoKey, 0, <<>>, 0, Message, FALSE, FALSE, <<>>)

NextConc ==
  \/ \E p \in Readers : RGet(p)
  \/ \E p \in Readers : Disconnect(p)
  \/ \E p \in Readers : RLoad(p)
  \/ \E p \in Readers : RSet(p)
  \/ WFind
  \/ WSave
  \/ \E i \in 1..2 : WDel(i)
  \/ WRespond

SpecConc == InitConc /\ [][NextConc]_vars

\* the event loop runs every continuation whose awaited call has settled
FairnessConc == \A p \in Readers : WF_vars(RLoad(p)) /\ WF_vars(RSet(p))

SpecConcLive == InitConc /\ [][NextConc]_vars /\ FairnessConc

-----------------------------------------------------------------------------
(* Vocabulary of the properties: what the last response records *)
IsRead(r) == r.op \in {"list", "detail"}
IsWrite(r) == r.op \in {"create", "update", "delete"}

\* the handler made the call e on key; ok tells whether the call succeeded
Called(r, e, key, ok) ==
  \E i \in DOMAIN r.trace :
    r.trace[i].e = e /\ r.trace[i].key = key /\ r.trace[i].ok = ok

\* the handler made a call e (on any key) with the given outcome
Did(r, e, ok) ==
  \E i \in DOMAIN r.trace : r.trace[i].e = e /\ r.trace[i].ok = ok

Count(r, e) == Cardinality({i \in DOMAIN r.trace : r.trace[i].e = e})

\* a read of a cached route that missed, loaded and answered success
MissLoaded(r) ==
  IsRead(r) /\ ~r.hit /\ r.status = 200 /\ Did(r, "get", TRUE)

\* the serialized payload lists the document of this id
Lists(body, id) == \E i \in DOMAIN body.items : body.items[i][1] = IdName[id]

-----------------------------------------------------------------------------
(* C1: after a create, update or delete of a cached type has returned      *)
(* success, no later list read and no later detail read of that id is      *)
(* answered with a cache entry that was stored before the mutation.        *)
C1_NoEntryOlderThanWriteServed == (IsRead(res) /\ res.hit) => ~res.stale

(* C2: after the two delete calls of an update or delete of entity id have *)
(* run, the next read of the individual key of id and the next read of any *)
(* collection key miss the cache.                                          *)
C2_MissAfterInvalidation ==
  [][(/\ res.op \in {"update", "delete"}
      /\ Called(res, "del", DetailKey(T, res.id), TRUE)
      /\ Called(res, "del", PatternKey(T), TRUE)
      /\ IsRead(res')
      /\ res'.op = "detail" => res'.id = res.id
      /\ ~Did(res', "get", FALSE))
     => (~res'.hit /\ Count(res', "find") = 1)]_vars

(* C3: once the delete call with the pattern 'types:*' has returned, the   *)
(* cache store holds no key that matches the pattern.                      *)
C3_PatternDeleteRemovesMatches ==
  Called(res, "del", PatternKey(T), TRUE)
    => \A k \in DOMAIN cache : ~GlobMatch(PatternKey(T), k)

(* C4: every successful create, update and delete handler of a cached type *)
(* has issued, before responding, a delete of the individual key of the    *)
(* entity and a delete of the collection pattern.                          *)
C4_WritesInvalidateBoth ==
  (IsWrite(res) /\ Success(res.status))
    => /\ \E ok \in BOOLEAN : Called(res, "del", DetailKey(T, res.id), ok)
       /\ \E ok \in BOOLEAN : Called(res, "del", PatternKey(T), ok)

(* C5: a list read issued after a successful create returns the created    *)
(* entity whenever that entity matches the read's query, also when the     *)
(* same query was cached before the create.                                *)
C5_ListAfterCreateShowsNew ==
  [][(/\ res.op = "create" /\ res.status = 201
      /\ res'.op = "list" /\ res'.status = 200
      /\ res.id \in DOMAIN db /\ Matches(T, db[res.id], res'.q))
     => Lists(res'.body, res.id)]_vars

(* C6: read-through. A read that misses and answers success has stored its *)
(* payload under its key; a read of the same key right after it (no write, *)
(* no expiry, cache reachable) is a hit with the same payload and makes no *)
(* store query: one query across the two reads.                            *)
C6_ReadThrough ==
  [][/\ (MissLoaded(res') /\ (res'.op = "detail" => CachesDetail(T)))
          => (Has(cache', res'.key) /\ Get(cache', res'.key) = res'.body)
     /\ (/\ MissLoaded(res) /\ Did(res, "setex", TRUE)
         /\ IsRead(res') /\ res'.key = res.key /\ ~Did(res', "get", FALSE))
          => (/\ res'.hit
              /\ res'.status = 200
              /\ res'.body = res.body
              /\ Count(res, "find") + Count(res', "find") = 1)]_vars

\* a populated key was read again and served from the cache
C6_Witness ==
  /\ IsRead(res) /\ res.hit /\ ~res.stale /\ res.status = 200
  /\ Len(res.body.items) > 0

(* C7: a cache hit answers with the parsed cached value and does nothing   *)
(* else: no store query, no cache set or delete, cache and store unchanged.*)
C7_HitHasNoEffect ==
  [][(IsRead(res') /\ res'.hit)
     => (/\ Has(cache, res'.key)
         /\ res'.status = 200
         /\ res'.body = Stringify(Parse(Get(cache, res'.key)))
         /\ res'.trace = <<Ev("get", res'.key, TRUE), Ev("respond", NoKey, TRUE)>>
         /\ cache' = cache
         /\ db' = db)]_vars

\* a detail read was served from the cache while other keys were cached too
C7_Witness ==
  /\ res.op = "detail" /\ res.hit
  /\ Cardinality(DOMAIN cache) > 1

(* C8: in every cached read route a failed cache get is handled like a     *)
(* miss: the handler queries the document store and, when that query and   *)
(* the cache set succeed, answers with the loaded data, not with an error. *)
C8_GetFailureIsMiss ==
  (IsRead(res) /\ Did(res, "get", FALSE))
    => /\ \E ok \in BOOLEAN : Did(res, "find", ok)
       /\ (~Did(res, "find", FALSE) /\ ~Did(res, "setex", FALSE))
            => res.status \in {200, 404}

(* C9: in every cached read route a failed cache set after a successful    *)
(* store query still answers success with the loaded data.                 *)
C9_SetFailureStillAnswers ==
  (IsRead(res) /\ Did(res, "find", TRUE) /\ Did(res, "setex", FALSE))
    => (res.status = 200 /\ res.body.kind # "message")

(* C10: a read that misses the cache and whose store query fails answers   *)
(* with an error (no cached, empty or default payload) and writes no cache *)
(* entry.                                                                  *)
C10_LoadFailurePropagates ==
  [][(IsRead(res') /\ Did(res', "find", FALSE))
     => (/\ res'.status = 500
         /\ res'.body = Message
         /\ ~res'.hit
         /\ Count(res', "setex") = 0
         /\ cache' = cache
         /\ db' = db)]_vars

\* a list read failed in its store query while the store held a document
C10_Witness ==
  /\ res.op = "list" /\ Did(res, "find", FALSE) /\ res.status = 500
  /\ db # <<>>

\* positions in the handler's trace of the calls named in es
Positions(r, es) == {i \in DOMAIN r.trace : r.trace[i].e \in es}

\* the mutation of the document store took effect
Committed(r) == \E i \in Positions(r, {"save", "remove"}) : r.trace[i].ok

(* C11: in a write request of a type that invalidates (News, Transfer,     *)
(* Award, PlayerStat) every cache delete is issued after the store         *)
(* mutation has completed, and a success response comes after all the      *)
(* delete calls of the handler have been made.                             *)
C11_MutateInvalidateRespond ==
  (IsWrite(res) /\ Invalidates(T))
    => /\ \A i \in Positions(res, {"del"}) :
            \E j \in Positions(res, {"save", "remove"}) : j < i /\ res.trace[j].ok
       /\ Success(res.status)
            => /\ \A i \in DOMAIN InvalidationKeys(T, res.op, res.id) :
                    Called(res, "del", InvalidationKeys(T, res.op, res.id)[i], TRUE)
               /\ \A i \in Positions(res, {"del"}) :
                    \A j \in Positions(res, {"respond"}) : i < j
               /\ res.trace[Len(res.trace)].e = "respond"

\* an update of a type that invalidates answered success after two deletes
C11_Witness ==
  /\ res.op = "update" /\ Success(res.status) /\ Invalidates(T)
  /\ Count(res, "del") = 2

(* C12: when the store mutation of a write has succeeded and a cache       *)
(* delete then fails, the caller gets the success response of the handler  *)
(* and the mutation stays in the store.                                    *)
C12_DelFailureStillSucceeds ==
  (IsWrite(res) /\ Committed(res) /\ Did(res, "del", FALSE))
    => /\ Success(res.status)
       /\ res.op = "delete" => res.id \notin DOMAIN db
       /\ res.op # "delete" => res.id \in DOMAIN db

\* the handler's del of this key returned the reply n
DelReply(r, key, n) ==
  \E i \in Positions(r, {"del"}) :
    r.trace[i].key = key /\ r.trace[i].ok /\ r.trace[i].n = n

\* two outcomes a caller and the cache cannot tell apart
SameOutcome(a, b) == a.status = b.status /\ a.body = b.body /\ a.cache = b.cache

(* C19: deleting an absent cache key is not an error. From every reachable *)
(* state an update or delete of a stored entity answers the same success   *)
(* response and leaves the same cache whether or not the entity's          *)
(* individual key is cached, a delete call that removed nothing does not   *)
(* fail its handler, and the invalidation calls run twice leave the cache  *)
(* they leave when run once.                                               *)
C19_DelOfAbsentKeyIsNoError ==
  /\ \A id \in DOMAIN db :
       LET without == Del(cache, DetailKey(T, id))
           keys == InvalidationKeys(T, "update", id)
           once == RunDels(cache, keys, 0, 1)
           twice == RunDels(once.cache, keys, 0, 1)
       IN /\ \A season \in Seasons :
               /\ Success(Update(T, cache, db, id, season, FALSE, "none").status)
               /\ SameOutcome(Update(T, cache, db, id, season, FALSE, "none"),
                              Update(T, without, db, id, season, FALSE, "none"))
          /\ Success(Delete(T, cache, db, id, "none").status)
          /\ SameOutcome(Delete(T, cache, db, id, "none"),
                         Delete(T, without, db, id, "none"))
          /\ once.ok /\ twice.ok /\ twice.cache = once.cache
  /\ (/\ res.op \in {"update", "delete"}
      /\ DelReply(res, DetailKey(T, res.id), 0)
      /\ ~Did(res, "del", FALSE) /\ ~Did(res, "populate", FALSE))
       => Success(res.status)

\* an update or delete succeeded although its individual key was not cached
C19_Witness ==
  /\ res.op \in {"update", "delete"} /\ Success(res.status)
  /\ DelReply(res, DetailKey(T, res.id), 0)
  /\ cache # <<>>

Loaded(k) ==
  IF \E id \in DOMAIN db : k = DetailKey(T, id)
  THEN Stringify(ObjectOf(db[CHOOSE id \in DOMAIN db : k = DetailKey(T, id)]))
  ELSE IF \E q \in qs : k = ListKey(T, q)
  THEN Stringify(ArrayOf(Find(T, db, CHOOSE q \in qs : k = ListKey(T, q))))
  ELSE Stringify(Message)

\* the entry under k differs from what the store holds now
Outdated(k) == k \in DOMAIN cache /\ cache[k].val # Loaded(k)

\* the process died after the mutation, before any invalidation call
Crashed(r) == IsWrite(r) /\ Committed(r) /\ Count(r, "respond") = 0

(* C18: every cache entry carries the time to live of 3600 seconds, so an  *)
(* entry that a write left outdated (also a write whose process died       *)
(* between the mutation and the invalidation) is eventually gone or        *)
(* current again, and a successful read of a key right after its expiry    *)
(* misses and answers with what the store holds.                           *)
C18_StaleEntriesExpire ==
  /\ [](\A k \in DOMAIN cache : cache[k].ttl = TTL_SECONDS /\ cache[k].ttl > 0)
  /\ [][(res.op = "expire" /\ IsRead(res') /\ res'.key = res.key
          /\ res'.status = 200)
        => (~res'.hit /\ res'.body = Loaded(res'.key))]_vars
  /\ \A k \in AllKeys : Outdated(k) ~> ~Outdated(k)

\* a write died after its mutation and left the individual key outdated
C18_Witness ==
  /\ Crashed(res) /\ res.op = "update"
  /\ Outdated(DetailKey(T, res.id))

\* the values a query object gives the parameter name (none when absent)
Given(q, name) == {q[i][2] : i \in {j \in DOMAIN q : q[j][1] = name}}

ParamNames == {"season", "sortBy"}

\* the same parameters with the same values, in whatever order
SameParams(a, b) == \A n \in ParamNames : Given(a, n) = Given(b, n)

\* the parameters of a query object that carry a value
RECURSIVE Effective(_)
Effective(q) ==
  IF q = <<>> THEN <<>>
  ELSE IF q[1][2] = "" THEN Effective(Tail(q))
  ELSE <<q[1]>> \o Effective(Tail(q))

\* two list requests in a row
TwoLists == res.op = "list" /\ res'.op = "list"

(* C13: two list requests whose query objects hold the same parameters     *)
(* with the same values in a different order compute the same cache key.   *)
C13_KeyIgnoresParameterOrder ==
  [][(TwoLists /\ SameParams(res.q, res'.q)) => res'.key = res.key]_vars

(* C14: two list requests whose query objects differ in the value of a     *)
(* parameter (or in its presence) compute different cache keys, and the    *)
(* second is not answered from the entry the first one stored.             *)
C14_DifferentValuesDifferentKeys ==
  [][(TwoLists /\ ~SameParams(res.q, res'.q))
     => /\ res'.key # res.key
        /\ (res'.hit /\ MissLoaded(res)) => res.key \in DOMAIN cache \ {res'.key}]_vars

\* a list request hit its entry while the entry of a query with another
\* value was cached next to it
C14_Witness ==
  /\ res.op = "list" /\ res.hit
  /\ \E a \in qs : /\ ~SameParams(a, res.q)
                    /\ Given(a, "season") # {} /\ Given(res.q, "season") # {}
                    /\ ListKey(T, a) \in DOMAIN cache

(* C15: a list request with an unset parameter (absent, or empty and so    *)
(* ignored by the handler) computes the key of the request that does not   *)
(* mention the parameter, and two list requests that build the same filter *)
(* and sort for the store compute the same key.                            *)
C15_UnsetParameterSameKey ==
  [][/\ (TwoLists /\ Effective(res.q) = Effective(res'.q)) => res'.key = res.key
     /\ (TwoLists /\ FilterOf(T, res.q) = FilterOf(T, res'.q)
                  /\ SortOf(res.q) = SortOf(res'.q)) => res'.key = res.key]_vars

\* the string the store's current document of TheId serializes to
Current == Stringify(ObjectOf(db[TheId]))

AllDone(ps) == \A p \in ps : procs[p].pc = "done"

(* C16: once the write has responded and every read has finished, the      *)
(* cache entry of the key is absent or equal to what the store holds, in   *)
(* every interleaving of get / load / set with save / del.                 *)
C16_NoStaleEntryAfterWrite ==
  AllDone(Readers \cup {Writer})
    => (~Has(cache, DetailKey(T, TheId)) \/ Get(cache, DetailKey(T, TheId)) = Current)

(* C17: as long as no write has begun, two overlapping reads of one key    *)
(* that both miss each load and each set; every read that has finished     *)
(* answered what the store holds, any entry under the key equals it, and   *)
(* when both have finished the entry is there.                             *)
C17_ConcurrentMissesAgree ==
  procs[Writer].pc = "find"
    => /\ \A p \in Readers : procs[p].pc = "done" => procs[p].out = Current
       /\ \A p \in Readers : procs[p].pc = "set" => Stringify(procs[p].val) = Current
       /\ Has(cache, DetailKey(T, TheId)) => Get(cache, DetailKey(T, TheId)) = Current
       /\ AllDone(Readers) => Has(cache, DetailKey(T, TheId))

\* both reads missed, loaded and set before any write began
C17_Witness ==
  /\ procs[Writer].pc = "find"
  /\ AllDone(Readers)
  /\ \A p \in Readers : ~procs[p].hit /\ procs[p].out = Current

\* no call of the read failed
Clean(r) == \A i \in DOMAIN r.trace : r.trace[i].e = "respond" \/ r.trace[i].ok

(* C21: for a type with a cached detail route, the detail read of id that  *)
(* follows a successful update of id misses the cache and answers the      *)
(* updated entity from the store; the one that follows a successful delete *)
(* of id answers not-found. The entity cached before the write is not      *)
(* returned.                                                               *)
C21_DetailAfterWriteIsFresh ==
  [][(/\ CachesDetail(T)
      /\ res.op \in {"update", "delete"} /\ Success(res.status)
      /\ res'.op = "detail" /\ res'.id = res.id /\ Clean(res'))
     => /\ ~res'.hit
        /\ Count(res', "find") = 1
        /\ res.op = "update"
             => (res'.status = 200 /\ res'.body = res.body
                 /\ res'.body = Stringify(ObjectOf(db[res.id])))
        /\ res.op = "delete" => (res'.status = 404 /\ res'.body = Message)]_vars

\* a detail read of an id that was created and deleted answered not-found
C21_Witness ==
  /\ CachesDetail(T)
  /\ res.op = "detail" /\ res.status = 404 /\ res.id < nextId
  /\ ~Has(cache, DetailKey(T, res.id))

(* C22: the cached collections and the cached individual entities of a     *)
(* type agree: a collection entry that lists entity id and the individual  *)
(* entry of id hold the same version of the entity.                        *)
C22_ListAndDetailEntriesAgree ==
  \A id \in Ids : \A k \in DOMAIN cache :
    (IsListKeyOf(T, k) /\ CachesDetail(T) /\ Has(cache, DetailKey(T, id)))
      => \A i \in DOMAIN Get(cache, k).items :
           Get(cache, k).items[i][1] = IdName[id]
             => Get(cache, k).items[i] = Get(cache, DetailKey(T, id)).items[1]

(* C24: one read request queries the store at most once and sets the cache *)
(* at most once; a hit does neither.                                       *)
C24_OneLoadOneSetPerRead ==
  IsRead(res)
    => /\ Count(res, "find") <= 1
       /\ Count(res, "setex") <= 1
       /\ Count(res, "get") <= 1
       /\ res.hit => (Count(res, "find") = 0 /\ Count(res, "setex") = 0)
       /\ MissLoaded(res) => (Count(res, "find") = 1 /\ Count(res, "setex") = 1)

\* a list read missed, queried the store once and set the cache once
C24_Witness ==
  /\ res.op = "list" /\ MissLoaded(res)
  /\ Count(res, "find") = 1 /\ Count(res, "setex") = 1
  /\ db # <<>>

(* C28: a detail read that reaches the store for an id the store does not  *)
(* hold answers not-found and leaves the cache as it was; every individual *)
(* entry in the cache holds the entity of its id, never a not-found.       *)
C28_NotFoundIsNotCached ==
  /\ [](\A id \in Ids :
         (CachesDetail(T) /\ Has(cache, DetailKey(T, id)))
           => /\ Get(cache, DetailKey(T, id)).kind = "object"
              /\ Len(Get(cache, DetailKey(T, id)).items) = 1
              /\ Get(cache, DetailKey(T, id)).items[1][1] = IdName[id]
              /\ id < nextId)
  /\ [][(res'.op = "detail" /\ ~res'.hit /\ Did(res', "find", TRUE)
          /\ res'.id \notin DOMAIN db)
        => (/\ res'.status = 404
            /\ res'.body = Message
            /\ Count(res', "setex") = 0
            /\ cache' = cache)]_vars
  /\ [][(res.op = "detail" /\ res.status = 404 /\ res'.op = "create"
          /\ res'.id = res.id /\ Success(res'.status))
        => ~Has(cache', DetailKey(T, res.id))]_vars

\* a detail read of an id that never existed answered not-found while the
\* cache held other entries
C28_Witness ==
  /\ CachesDetail(T)
  /\ res.op = "detail" /\ res.status = 404 /\ res.id >= nextId
  /\ cache # <<>>

(* C29: a write request that is rejected before its mutation commits       *)
(* leaves the store and the cache unchanged and makes no cache delete.     *)
C29_RejectedWriteChangesNothing ==
  [][(IsWrite(res') /\ ~Committed(res'))
     => (/\ ~Success(res'.status)
         /\ db' = db
         /\ cache' = cache
         /\ nextId' = nextId
         /\ Count(res', "del") = 0)]_vars

\* an update was rejected while the cache held entries
C29_Witness ==
  /\ res.op = "update" /\ res.status \in {400, 404} /\ ~Committed(res)
  /\ cache # <<>>

(* C26: the individual keys and the collection keys of a type are          *)
(* disjoint: a list request and a detail request never compute the same    *)
(* key, a detail read served from the cache answers a single entity and a  *)
(* list read served from the cache answers a list.                         *)
C26_KeySpacesDisjoint ==
  [][/\ ((res.op = "list" /\ res'.op = "detail") \/ (res.op = "detail" /\ res'.op = "list"))
          => res'.key # res.key
     /\ (res'.op = "detail" /\ res'.hit) => res'.body.kind = "object"
     /\ (res'.op = "list" /\ res'.hit) => res'.body.kind = "array"]_vars

\* the route of the read guards its cache get with an inner try/catch
GuardedRoute(t, op) ==
  IF op = "list" THEN GuardedListGet(t) ELSE CachesDetail(t) /\ GuardedDetailGet(t)

(* C27: in the list routes of News, Transfer and Award and the detail      *)
(* routes of News and Transfer, a cached value that does not parse and a   *)
(* cache get that throws are handled as a miss: the handler queries the    *)
(* store once, answers the loaded data and stores it under the same key    *)
(* (not-found, and no cache write, when the store lacks the entity).       *)
C27_BadEntryIsMiss ==
  [][(/\ IsRead(res') /\ GuardedRoute(T, res'.op)
      /\ Did(res', "get", FALSE) \/ Did(res', "parse", FALSE)
      /\ ~Did(res', "find", FALSE) /\ ~Did(res', "setex", FALSE))
     => /\ ~res'.hit
        /\ Count(res', "find") = 1
        /\ IF res'.op = "detail" /\ res'.id \notin DOMAIN db
           THEN res'.status = 404 /\ cache' = cache
           ELSE /\ res'.status = 200
                /\ res'.body = Loaded(res'.key)
                /\ Has(cache', res'.key)
                /\ Get(cache', res'.key) = res'.body]_vars

\* a read found a value that does not parse, loaded and overwrote it
C27_Witness ==
  /\ IsRead(res) /\ Did(res, "parse", FALSE) /\ res.status = 200
  /\ Get(cache, res.key) = res.body

(* C25: a read whose client disconnects after the miss, while the store    *)
(* query is pending, still completes the query and stores the result under *)
(* its key; nothing is delivered to that client, and a read of the key     *)
(* that starts while the entry is there is a hit.                          *)
C25_DisconnectedReadWarmsCache ==
  /\ \A p \in Readers : procs[p].gone ~> procs[p].pc = "done"
  /\ [][\A p \in Readers :
          (procs[p].gone /\ procs[p].pc = "set" /\ procs'[p].pc = "done")
            => /\ Has(cache', DetailKey(T, TheId))
               /\ Get(cache', DetailKey(T, TheId)) = Stringify(procs[p].val)
               /\ res' = res]_vars
  /\ [][\A p \in Readers :
          (procs[p].pc = "get" /\ procs'[p].pc # "get" /\ Has(cache, DetailKey(T, TheId)))
            => (procs'[p].hit /\ procs'[p].pc = "done")]_vars

\* the read of a client that went away finished and the other read hit
C25_Witness ==
  \E p \in Readers : \E q \in Readers \ {p} :
    /\ procs[p].gone /\ procs[p].pc = "done" /\ ~procs[p].hit
    /\ procs[q].pc = "done" /\ procs[q].hit /\ procs[Writer].pc = "find"
    /\ procs[q].out = Stringify(procs[p].val)

\* the handler made no call to the Redis client
NoCacheCall(r) ==
  \A i \in DOMAIN r.trace : r.trace[i].e \notin {"get", "setex", "del"}

(* C23: the routes of the routers without a cache (teams, standings) make  *)
(* no cache call and leave the cache as it is; a list or detail read       *)
(* answers what the store holds at its query, so the detail read that      *)
(* follows a successful write of the same id reflects the write.           *)
C23_PlainRoutesBypassCache ==
  [][/\ cache' = cache
     /\ NoCacheCall(res') /\ ~res'.hit
     /\ (res'.op = "list" /\ res'.status = 200) => res'.body = PlainArray(T, db)
     /\ (res'.op = "detail" /\ Clean(res'))
          => IF res'.id \in DOMAIN db
             THEN res'.status = 200 /\ res'.body = PlainObject(T, db[res'.id])
             ELSE res'.status = 404
     /\ (IsWrite(res) /\ Success(res.status) /\ res'.op = "detail"
          /\ res'.id = res.id /\ Clean(res'))
          => IF res.op = "delete" THEN res'.status = 404 ELSE res'.body = res.body]_vars

\* a detail read answered an updated document while the shared cache held
\* entries of other routers
C23_Witness ==
  /\ T \in {"Team", "Standing"}
  /\ res.op = "detail" /\ res.status = 200 /\ cache # <<>>
  /\ \E f \in FieldsOf(T) : db[res.id][f] = "1" /\ res.body.items[1][f] = "1"

\* every key of the request body is in the route's allowedUpdates
AllAllowed(t, body) == DOMAIN body \subseteq FieldsOf(t)

PatchAcceptable(body) ==
  /\ DOMAIN body \subseteq PlayerFields
  /\ "position" \in DOMAIN body => body["position"] \in validPositions
  /\ NumberCheck(body)

(* C31: an update of an existing player whose body holds only allowed keys *)
(* and a position of validPositions succeeds: the player is saved with the *)
(* new position and answered; an update with a position outside the set is *)
(* answered 'Invalid player position.' and leaves the player unchanged.    *)
C31_PositionUpdate ==
  [][(res'.op = "update" /\ "position" \in DOMAIN res'.req
        /\ DOMAIN res'.req \subseteq PlayerFields)
     => IF res'.req["position"] \in validPositions
        THEN (PatchAcceptable(res'.req) /\ res'.id \in DOMAIN db /\ Clean(res'))
               => /\ res'.status = 200
                  /\ db'[res'.id].position = res'.req["position"]
                  /\ res'.body = PlayerObject(db'[res'.id])
        ELSE res'.msg = MsgInvalidPosition /\ db' = db]_vars


\* a read that loaded from the store and set the cache entry of its key
Populated(r) == IsRead(r) /\ ~r.hit /\ r.status = 200 /\ Did(r, "setex", TRUE)

C33_EmbeddedFieldsFresh ==
  [][(res'.op = "list" /\ res'.hit)
     => res'.body = StringifyAwards(ArrayOf(EmbedFind(db)))]_vars


\* no two stored users share an email or a username
NoDuplicateUser(users) ==
  \A i, j \in DOMAIN users :
    i # j => (users[i].email # users[j].email /\ users[i].username # users[j].username)

\* two register requests with the same email or the same username
Conflicting(p, q) ==
  p # q /\ (procs[p].email = procs[q].email \/ procs[p].username = procs[q].username)

(* C34: after any sequence of register requests, two concurrent ones with  *)
(* the same email or username included, the user store holds no two users  *)
(* with the same email or the same username, and at most one of the        *)
(* conflicting requests is answered 201.                                   *)
C34_RegisterKeepsUsersUnique ==
  /\ NoDuplicateUser(db.users)
  /\ \A p, q \in Registrants :
       Conflicting(p, q) => ~(procs[p].status = 201 /\ procs[q].status = 201)


\* what a client sees of a login response
Observable(r) == [status |-> r.status, msg |-> r.msg, token |-> r.token, user |-> r.user]

\* the request's password is the password of the user with its email
PasswordMatches(users, email, password) ==
  \E i \in FindByEmail(users, email) : ComparePassword(users[i], password)

(* C35: a login with an unknown email and a login with a known email and a *)
(* wrong password get the same response (401, 'Invalid credentials', no    *)
(* token) and change no stored user; lastLogin changes and a token is      *)
(* issued only when the password matches, and only for the user of the     *)
(* request's email.                                                        *)
C35_LoginDenialsIndistinguishable ==
  [][res'.op = "login"
     => /\ (/\ res'.email # "" /\ res'.password # "" /\ Clean(res')
            /\ ~PasswordMatches(db.users, res'.email, res'.password))
             => /\ Observable(res') = [status |-> 401, msg |-> MsgInvalidCredentials,
                                       token |-> FALSE, user |-> "none"]
                /\ db' = db
        /\ (db' # db \/ res'.token)
             => PasswordMatches(db.users, res'.email, res'.password)
        /\ \A i \in DOMAIN db.users :
             db'.users[i] # db.users[i]
               => /\ db.users[i].email = res'.email
                  /\ db'.users[i].lastLogin # db.users[i].lastLogin]_vars

\* a login with a wrong password was denied after an earlier login of that
\* user had succeeded
C35_Witness ==
  /\ res.op = "login" /\ res.status = 401
  /\ FindByEmail(db.users, res.email) # {}
  /\ ~PasswordMatches(db.users, res.email, res.password)
  /\ \E i \in FindByEmail(db.users, res.email) : db.users[i].lastLogin > 0

=============================================================================
